---------------------------- MODULE Spec2Model ----------------------------
(***************************************************************************)
(* Model of the API gateway's gRPC client layer (pkg/grpc/client.go) and   *)
(* of the order-creation saga that is built on its facades.                *)
(*                                                                         *)
(*   - handleGRPCError, Clients.Close, Clients.HealthCheck and the facade  *)
(*     methods ReserveInventory / CancelReservation / CreateOrder are      *)
(*     translated from client.go.                                          *)
(*   - The coordinator that sequences the facades (internal/handlers) and  *)
(*     the remote calls the facades are to make ("TODO: Implement actual   *)
(*     gRPC call") are not in the source tree; they are modelled from the  *)
(*     specification, sections 4.3, 4.4 and 5.                             *)
(*                                                                         *)
(* Three specifications share the variables:                               *)
(*   Spec           the saga: concurrent CreateOrder runs                  *)
(*   SpecChannels   the channel registry: Close, HealthCheck, facade use   *)
(*   SpecTranslate  the error translator applied to every failure shape    *)
(***************************************************************************)
EXTENDS Naturals, Sequences, FiniteSets, TLC

VARIABLES
    \* --- channel registry (Clients) ---
    conn,        \* Clients.userConn / listingConn / inventoryConn
    closeCalls,  \* how many times Clients.Close has run
    health,      \* the last HealthCheck result, with the states it sampled
    opResult,    \* the last facade call made by SpecChannels
    \* --- error translator ---
    xlatIn,      \* the failure last handed to handleGRPCError
    xlatOut,     \* what handleGRPCError returned for it
    \* --- saga, one entry per run ---
    pc,          \* coordinator state of the run
    draft,       \* the run's OrderDraft (line items)
    ledger,      \* CompensationLedger: tokens acquired, in order
    inflight,    \* a Reserve call has been issued and has not returned
    compIdx,     \* next ledger position to cancel
    ctxDone,     \* the caller cancelled the run's context
    trigger,     \* the error that sent the run to COMPENSATING
    result,      \* what CreateOrder returned to the caller
    reserveLog,  \* Inventory.Reserve calls of the run, as the service saw them
    cancelLog,   \* Inventory.Cancel calls of the run, as the service saw them
    createLog    \* Order.Create calls of the run, as the service saw them

chanVars == <<conn, closeCalls, health, opResult>>
xlatVars == <<xlatIn, xlatOut>>
sagaVars == <<pc, draft, ledger, inflight, compIdx, ctxDone, trigger, result,
              reserveLog, cancelLog, createLog>>
vars == <<chanVars, xlatVars, sagaVars>>

None == [kind |-> "none"]

(***************************************************************************)
(* Errors.  A Go error value is a record: the nil error, one of the three  *)
(* package sentinels, a gRPC status error (code, message, producing        *)
(* backend), or any other error (a plain error that is no status).         *)
(***************************************************************************)
NilErr == [kind |-> "nil"]
ErrNotFound == [kind |-> "app", name |-> "resource not found"]
ErrUnauthorized == [kind |-> "app", name |-> "unauthorized"]
ErrInternal == [kind |-> "app", name |-> "internal error"]

Codes ==
    {"Canceled", "Unknown", "InvalidArgument", "DeadlineExceeded", "NotFound",
     "AlreadyExists", "PermissionDenied", "ResourceExhausted",
     "FailedPrecondition", "Aborted", "OutOfRange", "Unimplemented",
     "Internal", "Unavailable", "DataLoss", "Unauthenticated"}

Backends == {"user", "listing", "inventory"}

Messages == {"insufficient stock", "connection refused"}

StatusErr(code, msg, backend) ==
    [kind |-> "status", code |-> code, msg |-> msg, backend |-> backend]

PlainErr(msg, backend) == [kind |-> "plain", msg |-> msg, backend |-> backend]

\* status.FromError as handleGRPCError uses it: a status error yields its
\* status and ok; any other non-nil error yields an Unknown status and not ok.
FromError(err) ==
    IF err.kind = "status"
    THEN [code |-> err.code, ok |-> TRUE]
    ELSE [code |-> "Unknown", ok |-> FALSE]

\* handleGRPCError converts gRPC errors to application errors.
handleGRPCError(err) ==
    IF err = NilErr THEN NilErr
    ELSE LET st == FromError(err) IN
         IF ~st.ok THEN err
         ELSE CASE st.code = "NotFound" -> ErrNotFound
                [] st.code \in {"PermissionDenied", "Unauthenticated"} -> ErrUnauthorized
                [] OTHER -> ErrInternal

(***************************************************************************)
(* Channel registry.                                                       *)
(***************************************************************************)
Conns == {"userConn", "listingConn", "inventoryConn"}

\* connectivity.State of a *grpc.ClientConn; "nil" is the nil pointer.
ConnStates == {"Idle", "Connecting", "Ready", "TransientFailure", "Shutdown"}

\* connectivity.State.String()
StateString(s) ==
    CASE s = "Idle" -> "IDLE"
      [] s = "Connecting" -> "CONNECTING"
      [] s = "Ready" -> "READY"
      [] s = "TransientFailure" -> "TRANSIENT_FAILURE"
      [] s = "Shutdown" -> "SHUTDOWN"
      [] OTHER -> "INVALID_STATE"

\* Faulty variant: IDLE is no longer counted as healthy.
isHealthy_ReadyOnly(c) ==
    IF c = "nil" THEN FALSE ELSE StateString(c) = "READY"

\* The isHealthy closure of HealthCheck.
isHealthy(c) ==
    IF c = "nil" THEN FALSE
    ELSE LET state == StateString(c) IN state = "READY" \/ state = "IDLE"

\* The map HealthCheck returns.
HealthReport(cs) ==
    [n \in {"user-service", "listing-service", "inventory-service"} |->
        CASE n = "user-service" -> isHealthy(cs["userConn"])
          [] n = "listing-service" -> isHealthy(cs["listingConn"])
          [] n = "inventory-service" -> isHealthy(cs["inventoryConn"])]

\* (*grpc.ClientConn).Close as Clients.Close uses it: the channel enters
\* SHUTDOWN; closing a closed channel changes nothing.
ConnClose(c) == IF c = "nil" THEN "nil" ELSE "Shutdown"

\* The registry after Clients.Close.
CloseAll(cs) == [c \in Conns |-> IF cs[c] # "nil" THEN ConnClose(cs[c]) ELSE cs[c]]

(***************************************************************************)
(* Facades of client.go.  Each returns what the Go method returns.         *)
(***************************************************************************)
UnitPriceCents == 2999

\* Clients.ReserveInventory: (reservation id, error)
ReserveInventory(productID, quantity) ==
    [token |-> "reservation-" \o productID, err |-> NilErr]

\* Clients.CancelReservation: error
CancelReservation(reservationID) == NilErr

\* The items loop of Clients.CreateOrder.
OrderItems(req) ==
    [i \in 1..Len(req.Items) |->
        [ProductID |-> req.Items[i].ProductID,
         Quantity |-> req.Items[i].Quantity,
         UnitPrice |-> UnitPriceCents,
         TotalPrice |-> req.Items[i].Quantity * UnitPriceCents]]

RECURSIVE SumTotal(_)
SumTotal(items) ==
    IF items = <<>> THEN 0
    ELSE items[Len(items)].TotalPrice + SumTotal(SubSeq(items, 1, Len(items) - 1))

\* Faulty variant: the order is built without its reservation ids.
CreateOrder_NoReservations(userID, req, reservationIDs) ==
    [order |-> [ID |-> "order-new", UserID |-> userID, Items |-> OrderItems(req),
                Status |-> "pending", TotalAmount |-> SumTotal(OrderItems(req)),
                ShippingAddr |-> req.ShippingAddr, ReservationIDs |-> <<>>],
     err |-> NilErr]

\* Clients.CreateOrder: (*models.Order, error)
CreateOrder(userID, req, reservationIDs) ==
    [order |-> [ID |-> "order-new", UserID |-> userID, Items |-> OrderItems(req),
                Status |-> "pending", TotalAmount |-> SumTotal(OrderItems(req)),
                ShippingAddr |-> req.ShippingAddr,
                ReservationIDs |-> reservationIDs],
     err |-> NilErr]

(***************************************************************************)
(* The facades with their remote call in place (specification 4.3): the    *)
(* remote call's failure signal, when there is one, goes through the       *)
(* error translator; otherwise the facade returns what client.go returns.  *)
(* `remote` is NilErr or the transport failure of the call.                *)
(***************************************************************************)
InventoryReserve(productID, quantity, remote) ==
    IF remote = NilErr THEN ReserveInventory(productID, quantity)
    ELSE [token |-> "", err |-> handleGRPCError(remote)]

InventoryCancel(token, remote) ==
    IF remote = NilErr THEN CancelReservation(token)
    ELSE handleGRPCError(remote)

OrderCreate(userID, req, reservationIDs, remote) ==
    IF remote = NilErr THEN CreateOrder(userID, req, reservationIDs)
    ELSE [order |-> None, err |-> handleGRPCError(remote)]

\* The outcomes the remote services can give each call.
ReserveFailures ==
    {StatusErr("ResourceExhausted", "insufficient stock", "inventory"),
     StatusErr("NotFound", "insufficient stock", "inventory")}

CancelFailures == {StatusErr("Unauthenticated", "connection refused", "inventory")}

CreateFailures == {StatusErr("Internal", "connection refused", "user")}

\* What a call made on a cancelled context fails with.
CtxCanceled(backend) == StatusErr("Canceled", "connection refused", backend)

RemoteOutcomes(done, failures, backend) ==
    IF done THEN {CtxCanceled(backend)} ELSE {NilErr} \cup failures

\* The Canceled kind of the domain taxonomy (specification 7).
ErrCanceled == [kind |-> "app", name |-> "canceled"]

(***************************************************************************)
(* The order-creation coordinator (specification 4.4 and 5).               *)
(***************************************************************************)
Runs == {"r1", "r2"}

MaxItems == 3

ItemChoices ==
    {[ProductID |-> "P1", Quantity |-> 2], [ProductID |-> "P2", Quantity |-> 1]}

ItemLists == UNION {[1..n -> ItemChoices] : n \in 1..MaxItems}

Drafts == {[Items |-> l, ShippingAddr |-> "addr"] : l \in ItemLists}

UserOf(r) == "user-" \o r

InitSaga ==
    /\ pc = [r \in Runs |-> "idle"]
    /\ draft = [r \in Runs |-> None]
    /\ ledger = [r \in Runs |-> <<>>]
    /\ inflight = [r \in Runs |-> FALSE]
    /\ compIdx = [r \in Runs |-> 1]
    /\ ctxDone = [r \in Runs |-> FALSE]
    /\ trigger = [r \in Runs |-> NilErr]
    /\ result = [r \in Runs |-> None]
    /\ reserveLog = [r \in Runs |-> <<>>]
    /\ cancelLog = [r \in Runs |-> <<>>]
    /\ createLog = [r \in Runs |-> <<>>]

\* The caller invokes CreateOrder(userID, draft).
StartRun(r) ==
    /\ pc[r] = "idle"
    /\ \E d \in Drafts : draft' = [draft EXCEPT ![r] = d]
    /\ pc' = [pc EXCEPT ![r] = "COLLECTING_RESERVATIONS"]
    /\ UNCHANGED <<ledger, inflight, compIdx, ctxDone, trigger, result,
                   reserveLog, cancelLog, createLog, chanVars, xlatVars>>

\* The caller cancels the request's context.
CancelCtx(r) ==
    /\ pc[r] \in {"COLLECTING_RESERVATIONS", "COMMITTING"}
    /\ ~ctxDone[r]
    /\ ctxDone' = [ctxDone EXCEPT ![r] = TRUE]
    /\ UNCHANGED <<pc, draft, ledger, inflight, compIdx, trigger, result,
                   reserveLog, cancelLog, createLog, chanVars, xlatVars>>

\* Step 1: the next line item's Inventory.Reserve call is issued.
IssueReserve(r) ==
    /\ pc[r] = "COLLECTING_RESERVATIONS"
    /\ ~inflight[r]
    /\ ~ctxDone[r]
    /\ Len(ledger[r]) < Len(draft[r].Items)
    /\ inflight' = [inflight EXCEPT ![r] = TRUE]
    /\ UNCHANGED <<pc, draft, ledger, compIdx, ctxDone, trigger, result,
                   reserveLog, cancelLog, createLog, chanVars, xlatVars>>

\* Where the coordinator goes after a successful reservation.
AfterReserve(nTokens, nItems) ==
    IF nTokens = nItems THEN "COMMITTING" ELSE "COLLECTING_RESERVATIONS"

\* Step 1: the Reserve call returns; a token joins the ledger, a failure
\* stops the iteration and starts compensation.
ReturnReserve(r) ==
    /\ pc[r] = "COLLECTING_RESERVATIONS"
    /\ inflight[r]
    /\ LET item == draft[r].Items[Len(ledger[r]) + 1] IN
       \E remote \in RemoteOutcomes(ctxDone[r], ReserveFailures, "inventory") :
          LET res == InventoryReserve(item.ProductID, item.Quantity, remote) IN
          /\ reserveLog' = [reserveLog EXCEPT ![r] =
                 Append(@, [ProductID |-> item.ProductID, token |-> res.token,
                            err |-> res.err])]
          /\ IF res.err = NilErr
             THEN /\ ledger' = [ledger EXCEPT ![r] = Append(@, res.token)]
                  /\ pc' = [pc EXCEPT ![r] =
                         AfterReserve(Len(ledger[r]) + 1, Len(draft[r].Items))]
                  /\ UNCHANGED trigger
             ELSE /\ trigger' = [trigger EXCEPT ![r] = res.err]
                  /\ pc' = [pc EXCEPT ![r] = "COMPENSATING"]
                  /\ UNCHANGED ledger
    /\ inflight' = [inflight EXCEPT ![r] = FALSE]
    /\ UNCHANGED <<draft, compIdx, ctxDone, result, cancelLog, createLog,
                   chanVars, xlatVars>>

\* Cancellation seen between two reservations: no further Reserve is issued.
AbortCollect(r) ==
    /\ pc[r] = "COLLECTING_RESERVATIONS"
    /\ ~inflight[r]
    /\ ctxDone[r]
    /\ trigger' = [trigger EXCEPT ![r] = ErrCanceled]
    /\ pc' = [pc EXCEPT ![r] = "COMPENSATING"]
    /\ UNCHANGED <<draft, ledger, inflight, compIdx, ctxDone, result,
                   reserveLog, cancelLog, createLog, chanVars, xlatVars>>

\* Step 2: Order.Create with the ledger's tokens.
Commit(r) ==
    /\ pc[r] = "COMMITTING"
    /\ \E remote \in RemoteOutcomes(ctxDone[r], CreateFailures, "user") :
          LET res == OrderCreate(UserOf(r), draft[r], ledger[r], remote) IN
          /\ createLog' = [createLog EXCEPT ![r] =
                 Append(@, [tokens |-> ledger[r], err |-> res.err])]
          /\ IF res.err = NilErr
             THEN /\ result' = [result EXCEPT ![r] = res]
                  /\ pc' = [pc EXCEPT ![r] = "DONE"]
                  /\ UNCHANGED trigger
             ELSE /\ trigger' = [trigger EXCEPT ![r] = res.err]
                  /\ pc' = [pc EXCEPT ![r] = "COMPENSATING"]
                  /\ UNCHANGED result
    /\ UNCHANGED <<draft, ledger, inflight, compIdx, ctxDone, reserveLog, cancelLog,
                   chanVars, xlatVars>>

\* Faulty variant: the first failing Cancel ends the compensation loop.
Compensate_StopsOnFailure(r) ==
    /\ pc[r] = "COMPENSATING"
    /\ compIdx[r] <= Len(ledger[r])
    /\ \E remote \in RemoteOutcomes(FALSE, CancelFailures, "inventory") :
          LET e == InventoryCancel(ledger[r][compIdx[r]], remote) IN
          /\ cancelLog' = [cancelLog EXCEPT ![r] =
                 Append(@, [token |-> ledger[r][compIdx[r]], err |-> e])]
          /\ compIdx' = [compIdx EXCEPT ![r] =
                 IF e = NilErr THEN @ + 1 ELSE Len(ledger[r]) + 1]
    /\ UNCHANGED <<pc, draft, ledger, inflight, ctxDone, trigger, result,
                   reserveLog, createLog, chanVars, xlatVars>>

\* Step 3: one Inventory.Cancel of the compensation loop; its failure is
\* recorded and the loop goes on.
Compensate(r) ==
    /\ pc[r] = "COMPENSATING"
    /\ compIdx[r] <= Len(ledger[r])
    /\ \E remote \in RemoteOutcomes(FALSE, CancelFailures, "inventory") :
          cancelLog' = [cancelLog EXCEPT ![r] =
              Append(@, [token |-> ledger[r][compIdx[r]],
                         err |-> InventoryCancel(ledger[r][compIdx[r]], remote)])]
    /\ compIdx' = [compIdx EXCEPT ![r] = @ + 1]
    /\ UNCHANGED <<pc, draft, ledger, inflight, ctxDone, trigger, result,
                   reserveLog, createLog, chanVars, xlatVars>>

\* Step 3, after the loop: FAILED with the triggering error.
Fail(r) ==
    /\ pc[r] = "COMPENSATING"
    /\ compIdx[r] > Len(ledger[r])
    /\ pc' = [pc EXCEPT ![r] = "FAILED"]
    /\ result' = [result EXCEPT ![r] = [order |-> None, err |-> trigger[r]]]
    /\ UNCHANGED <<draft, ledger, inflight, compIdx, ctxDone, trigger,
                   reserveLog, cancelLog, createLog, chanVars, xlatVars>>

(***************************************************************************)
(* Channel registry actions.                                               *)
(***************************************************************************)
MaxClose == 2

InitChannels ==
    /\ closeCalls = 0
    /\ health = None
    /\ opResult = None

\* NewClients: every Dial succeeded and each channel starts IDLE.  A Clients
\* value built without NewClients has nil channels (HealthCheck and Close
\* test for them).
InitConn == conn \in [Conns -> {"Idle", "nil"}]

\* The channel's own connectivity changes: lazy connect, failure, retry.
ConnSteps ==
    {<<"Idle", "Connecting">>, <<"Connecting", "Ready">>,
     <<"Connecting", "TransientFailure">>, <<"TransientFailure", "Connecting">>,
     <<"Ready", "Idle">>, <<"Ready", "TransientFailure">>}

ConnTransition(c) ==
    /\ \E t \in ConnStates : <<conn[c], t>> \in ConnSteps /\ conn' = [conn EXCEPT ![c] = t]
    /\ UNCHANGED <<closeCalls, health, opResult, sagaVars, xlatVars>>

\* Clients.Close
Close ==
    /\ closeCalls < MaxClose
    /\ conn' = CloseAll(conn)
    /\ closeCalls' = closeCalls + 1
    /\ UNCHANGED <<health, opResult, sagaVars, xlatVars>>

\* Clients.HealthCheck
HealthCheck ==
    /\ health' = [report |-> HealthReport(conn), sampled |-> conn]
    /\ UNCHANGED <<conn, closeCalls, opResult, sagaVars, xlatVars>>

\* A facade operation on the inventory channel.
FacadeCall ==
    /\ \E item \in ItemChoices :
          opResult' = [afterClose |-> closeCalls > 0,
                       channel |-> conn["inventoryConn"],
                       res |-> ReserveInventory(item.ProductID, item.Quantity)]
    /\ UNCHANGED <<conn, closeCalls, health, sagaVars, xlatVars>>

(***************************************************************************)
(* Error translator applied to one failure.                                *)
(***************************************************************************)
Failures ==
    {NilErr}
    \cup {StatusErr(c, m, b) : c \in Codes, m \in Messages, b \in Backends}
    \cup {PlainErr(m, b) : m \in Messages, b \in Backends}

InitTranslate ==
    /\ xlatIn = None
    /\ xlatOut = None

Translate ==
    /\ \E e \in Failures :
          /\ xlatIn' = e
          /\ xlatOut' = handleGRPCError(e)
    /\ UNCHANGED <<sagaVars, chanVars>>

(***************************************************************************)
(* Specifications.                                                         *)
(***************************************************************************)
Init ==
    /\ InitSaga
    /\ InitChannels /\ conn = [c \in Conns |-> "Idle"]
    /\ InitTranslate

Next ==
    \E r \in Runs :
        \/ StartRun(r)
        \/ CancelCtx(r)
        \/ IssueReserve(r)
        \/ ReturnReserve(r)
        \/ AbortCollect(r)
        \/ Commit(r)
        \/ Compensate(r)
        \/ Fail(r)

Spec == Init /\ [][Next]_vars

ChannelsInit ==
    /\ InitChannels /\ InitConn
    /\ InitSaga
    /\ InitTranslate

ChannelsNext ==
    \/ \E c \in Conns : ConnTransition(c)
    \/ Close
    \/ HealthCheck
    \/ FacadeCall

\* One CreateOrder invocation on its own: the second run is never started.
InitOneRun ==
    /\ pc = [r \in Runs |-> IF r = "r1" THEN "idle" ELSE "absent"]
    /\ draft = [r \in Runs |-> None]
    /\ ledger = [r \in Runs |-> <<>>]
    /\ inflight = [r \in Runs |-> FALSE]
    /\ compIdx = [r \in Runs |-> 1]
    /\ ctxDone = [r \in Runs |-> FALSE]
    /\ trigger = [r \in Runs |-> NilErr]
    /\ result = [r \in Runs |-> None]
    /\ reserveLog = [r \in Runs |-> <<>>]
    /\ cancelLog = [r \in Runs |-> <<>>]
    /\ createLog = [r \in Runs |-> <<>>]
    /\ InitChannels /\ conn = [c \in Conns |-> "Idle"]
    /\ InitTranslate

SpecOneRun == InitOneRun /\ [][Next]_vars

SpecChannels == ChannelsInit /\ [][ChannelsNext]_vars

SpecTranslate == Init /\ [][Translate]_vars

(***************************************************************************)
(* What the remote services saw, read off the call logs.                   *)
(***************************************************************************)
Range(f) == {f[i] : i \in DOMAIN f}

\* Tokens of the run's successful Reserve calls, in call order.
RECURSIVE TokensOf(_)
TokensOf(log) ==
    IF log = <<>> THEN <<>>
    ELSE LET rest == TokensOf(SubSeq(log, 1, Len(log) - 1)) IN
         IF log[Len(log)].err = NilErr THEN Append(rest, log[Len(log)].token) ELSE rest

Acquired(r) == TokensOf(reserveLog[r])

\* Number of Inventory.Cancel calls of run r that name token t.
CancelsOf(r, t) == Cardinality({i \in DOMAIN cancelLog[r] : cancelLog[r][i].token = t})

CancelledTokens(r) == [i \in DOMAIN cancelLog[r] |-> cancelLog[r][i].token]

ReserveFailed(r) ==
    /\ reserveLog[r] # <<>>
    /\ reserveLog[r][Len(reserveLog[r])].err # NilErr

CreateFailed(r) ==
    /\ createLog[r] # <<>>
    /\ createLog[r][Len(createLog[r])].err # NilErr

\* Reserve calls follow the draft's list order, one per line item, and
\* nothing is called after a failed one.
ReservesInListOrder(r) ==
    /\ Len(reserveLog[r]) <= Len(draft[r].Items)
    /\ \A i \in DOMAIN reserveLog[r] :
          /\ reserveLog[r][i].ProductID = draft[r].Items[i].ProductID
          /\ reserveLog[r][i].err # NilErr => i = Len(reserveLog[r])

\* The failure that started compensation, as the failing facade returned it.
TriggerOf(r) ==
    IF ReserveFailed(r) THEN reserveLog[r][Len(reserveLog[r])].err
    ELSE IF CreateFailed(r) THEN createLog[r][Len(createLog[r])].err
    ELSE ErrCanceled

\* Conflict of the domain taxonomy (specification 4.2 and 7).
ErrConflict == [kind |-> "app", name |-> "conflict"]

Resolved(r) == pc[r] \in {"DONE", "FAILED", "absent"}

OrderTokens(r) == IF pc[r] = "DONE" THEN result[r].order.ReservationIDs ELSE <<>>

\* Places (run, position) where token t sits in a committed order.
Consumptions(t) ==
    {<<r, i>> \in Runs \X (1..MaxItems) : i \in DOMAIN OrderTokens(r) /\ OrderTokens(r)[i] = t}

\* Cancel calls (run, position) that name token t.
Cancellations(t) ==
    {<<r, i>> \in Runs \X (1..MaxItems) : i \in DOMAIN cancelLog[r] /\ cancelLog[r][i].token = t}

(***************************************************************************)
(* C3.  Once every run has resolved, each token Reserve returned is        *)
(* either in exactly one committed order (once) and never cancelled, or    *)
(* cancelled exactly once and in no order.                                 *)
(***************************************************************************)
C3_TokenConsumedXorCancelled ==
    (\A r \in Runs : Resolved(r)) =>
        \A r \in Runs : \A t \in Range(Acquired(r)) :
            \/ Cardinality(Consumptions(t)) = 1 /\ Cancellations(t) = {}
            \/ Consumptions(t) = {} /\ Cardinality(Cancellations(t)) = 1

(***************************************************************************)
(* C4.  When every Reserve and Order.Create succeed, the returned order's  *)
(* reservation list is the sequence of tokens acquired in that call, in    *)
(* acquisition order, and no Cancel call is issued.                        *)
(***************************************************************************)
C4_CommittedOrderCarriesLedger ==
    \A r \in Runs :
        pc[r] = "DONE" =>
            /\ result[r].err = NilErr
            /\ Len(Acquired(r)) = Len(draft[r].Items)
            /\ result[r].order.ReservationIDs = Acquired(r)
            /\ cancelLog[r] = <<>>

C4_Witness ==
    \E r \in Runs :
        /\ pc[r] = "DONE"
        /\ Len(draft[r].Items) = 2
        /\ draft[r].Items[1].ProductID # draft[r].Items[2].ProductID
        /\ Len(result[r].order.ReservationIDs) = 2

CancelledWhileCollecting(r) == pc[r] = "FAILED" /\ ctxDone[r] /\ createLog[r] = <<>>

ServiceConn ==
    {<<"user-service", "userConn">>, <<"listing-service", "listingConn">>,
     <<"inventory-service", "inventoryConn">>}

(***************************************************************************)
(* C7.  A service's health entry is true exactly when its channel was      *)
(* READY or IDLE; false for CONNECTING, TRANSIENT_FAILURE, SHUTDOWN and    *)
(* for a nil channel.                                                      *)
(***************************************************************************)
C7_HealthyIffReadyOrIdle ==
    health # None =>
        /\ DOMAIN health.report = {sc[1] : sc \in ServiceConn}
        /\ \A sc \in ServiceConn :
              health.report[sc[1]] = (health.sampled[sc[2]] \in {"Ready", "Idle"})

C7_Witness ==
    /\ health # None
    /\ health.sampled["userConn"] = "nil"
    /\ health.sampled["listingConn"] = "TransientFailure"
    /\ health.sampled["inventoryConn"] = "Idle"
    /\ health.report["inventory-service"]
    /\ ~health.report["listing-service"]

\* The mapping policy of specification 4.2.
TaxonomyOf(e) ==
    IF e = NilErr THEN NilErr
    ELSE CASE e.code = "NotFound" -> ErrNotFound
           [] e.code \in {"PermissionDenied", "Unauthenticated"} -> ErrUnauthorized
           [] e.code = "ResourceExhausted" -> ErrConflict
           [] e.code = "InvalidArgument" /\ e.msg = "insufficient stock" -> ErrConflict
           [] OTHER -> ErrInternal

(***************************************************************************)
(* C8.  The translator maps not-found to NotFound, permission-denied and   *)
(* unauthenticated to Unauthorized, resource-exhausted (and                *)
(* invalid-argument signalling insufficient stock) to Conflict, every      *)
(* other code to Internal, and a nil failure to nil, whatever the backend. *)
(***************************************************************************)
C8_TranslationTable ==
    (xlatIn # None /\ xlatIn.kind \in {"nil", "status"}) => xlatOut = TaxonomyOf(xlatIn)

\* The domain taxonomy of specification 7.
DomainErrors == {ErrNotFound, ErrUnauthorized, ErrConflict, ErrInternal, ErrCanceled}

(***************************************************************************)
(* C9.  Every non-nil failure, a recognizable status or not, translates    *)
(* to one of the domain error kinds (Internal when unrecognized); the raw  *)
(* error is never returned.                                                *)
(***************************************************************************)
C9_NoRawErrorEscapes ==
    (xlatIn # None /\ xlatIn # NilErr) =>
        /\ xlatOut \in DomainErrors
        /\ xlatIn.kind = "plain" => xlatOut = ErrInternal

(***************************************************************************)
(* C10.  Close is idempotent, after Close every channel stays in SHUTDOWN, *)
(* and a facade operation made after Close fails with a closed condition.  *)
(***************************************************************************)
C10_CloseIsTerminal ==
    closeCalls >= 1 =>
        /\ \A c \in Conns : conn[c] \in {"Shutdown", "nil"}
        /\ CloseAll(conn) = conn
        /\ (opResult # None /\ opResult.afterClose /\ opResult.channel = "Shutdown") =>
              opResult.res.err # NilErr

=============================================================================
